---- MODULE Spec2Model ----
(***************************************************************************)
(* A model of cnn_structure.py: the layer vocabulary (SkipLayer,           *)
(* PoolingLayer), the CNN builder (generate / train / evaluate, the        *)
(* identity hash, the process-wide SkipLayer.GROUP_NUMBER) and the         *)
(* topology decoder get_layer_from_string.                                 *)
(*                                                                         *)
(* Python strings are sequences of one-character strings, so that          *)
(* str(), int(), str.isdigit(), str.split('-') and '-'.join() are          *)
(* computed the way Python computes them.                                  *)
(***************************************************************************)
EXTENDS Integers, Sequences, FiniteSets, TLC

\* ------------------------------------------------------------------ bounds

\* Longest topology (number of layers) given to a CNN or to the encoder.
MaxLayers == 2

\* Longest token list joined into a raw topology string for the decoder.
MaxTokens == 3

\* ----------------------------------------------------------------- strings

DigitChars == <<"0", "1", "2", "3", "4", "5", "6", "7", "8", "9">>

DigitSet == {DigitChars[k] : k \in 1..10}

DigitVal(c) == (CHOOSE k \in 1..10 : DigitChars[k] = c) - 1

\* str(n) of a non-negative int: its decimal digits, no leading zero.
RECURSIVE py_str(_)
py_str(n) ==
    IF n < 10 THEN <<DigitChars[n + 1]>>
    ELSE py_str(n \div 10) \o <<DigitChars[(n % 10) + 1]>>

\* str.isdigit(): at least one character, and every character a digit.
isdigit(s) == Len(s) > 0 /\ \A k \in 1..Len(s) : s[k] \in DigitSet

\* The characters of s that are not the digit separator '_'.
RECURSIVE StripUnderscores(_)
StripUnderscores(s) ==
    IF s = <<>> THEN <<>>
    ELSE IF Head(s) = "_" THEN StripUnderscores(Tail(s))
    ELSE <<Head(s)>> \o StripUnderscores(Tail(s))

\* The literal with an optional leading sign '+' removed.
Unsigned(s) == IF Len(s) > 0 /\ Head(s) = "+" THEN Tail(s) ELSE s

\* int(s) succeeds: an optional '+', then digits, single underscores allowed
\* between digits (none leading, trailing or doubled).
int_ok(s) ==
    LET u == Unsigned(s) IN
    /\ Len(u) > 0
    /\ \A k \in 1..Len(u) : u[k] \in DigitSet \cup {"_"}
    /\ u[1] # "_"
    /\ u[Len(u)] # "_"
    /\ \A k \in 1..(Len(u) - 1) : ~(u[k] = "_" /\ u[k + 1] = "_")

RECURSIVE DecimalValue(_)
DecimalValue(d) ==
    IF d = <<>> THEN 0
    ELSE DecimalValue(SubSeq(d, 1, Len(d) - 1)) * 10 + DigitVal(d[Len(d)])

\* int(s) where it succeeds: the value of the digits (leading zeros dropped).
int(s) == DecimalValue(StripUnderscores(Unsigned(s)))

\* sep.join(parts)
RECURSIVE join(_, _)
join(sep, parts) ==
    IF parts = <<>> THEN <<>>
    ELSE IF Len(parts) = 1 THEN parts[1]
    ELSE parts[1] \o sep \o join(sep, Tail(parts))

\* s.split(c): always at least one piece; "" splits into [""].
RECURSIVE split(_, _)
split(s, c) ==
    IF \A k \in 1..Len(s) : s[k] # c THEN <<s>>
    ELSE LET p == CHOOSE k \in 1..Len(s) :
                      s[k] = c /\ \A m \in 1..(k - 1) : s[m] # c
         IN <<SubSeq(s, 1, p - 1)>> \o split(SubSeq(s, p + 1, Len(s)), c)

Dash == <<"-">>

MaxName == <<"m", "a", "x">>

MeanName == <<"m", "e", "a", "n">>

\* ------------------------------------------------------------------ layers

SkipLayer(f1, f2) ==
    [type |-> "SkipLayer", feature_size1 |-> f1, feature_size2 |-> f2,
     pooling_type |-> <<>>]

PoolingLayer(p) ==
    [type |-> "PoolingLayer", feature_size1 |-> 0, feature_size2 |-> 0,
     pooling_type |-> p]

\* PoolingLayer.pooling_choices: the kinds tensor_rep can dispatch on.
pooling_choices == {MaxName, MeanName}

SkipLayer_repr(layer) ==
    py_str(layer.feature_size1) \o Dash \o py_str(layer.feature_size2)

PoolingLayer_repr(layer) == layer.pooling_type

\* str(layer): the canonical token of a layer.
Layer_repr(layer) ==
    IF layer.type = "SkipLayer" THEN SkipLayer_repr(layer)
    ELSE PoolingLayer_repr(layer)

\* A buggy hash that leaves the pooling layers out.
generate_hash_skip_only(ls) ==
    join(Dash, [k \in 1..Len(SelectSeq(ls, LAMBDA x : x.type = "SkipLayer")) |->
                   Layer_repr(SelectSeq(ls, LAMBDA x : x.type = "SkipLayer")[k])])

\* CNN.generate_hash: '-'.join(map(str, self.layers))
generate_hash(ls) == join(Dash, [k \in 1..Len(ls) |-> Layer_repr(ls[k])])

\* All sequences over S of length 0..n.
SeqsUpTo(S, n) == UNION {[1..k -> S] : k \in 0..n}

\* ------------------------------------------------------------------- state

\* The CNN objects of the process.
Instances == {"cnn1", "cnn2"}

VARIABLES
    layers,            \* CNN.layers, per instance
    hash,              \* CNN.hash, per instance
    load_if_exist,     \* CNN.load_if_exist, per instance
    model,             \* CNN.model, per instance (None until built)
    GROUP_NUMBER,      \* SkipLayer.GROUP_NUMBER, process-wide
    graphs_built,      \* number of tf.keras.Model objects created so far
    dirs,              \* existing directories under MODEL_BASE_DIRECTORY
    last_call,         \* what the most recent CNN method call did
    source,            \* where the decoder's argument came from
    topology,          \* the topology that was encoded (source = "encode")
    layer_definition,  \* get_layer_from_string's argument
    tokens,            \* get_layer_from_string's local list `layers`
    l,                 \* get_layer_from_string's local list `l`
    pc                 \* get_layer_from_string's position / outcome

cnn_vars == <<layers, hash, load_if_exist, model, GROUP_NUMBER, graphs_built,
              dirs, last_call>>

codec_vars == <<source, topology, layer_definition, tokens, l, pc>>

vars == <<layers, hash, load_if_exist, model, GROUP_NUMBER, graphs_built,
          dirs, last_call, source, topology, layer_definition, tokens, l, pc>>

\* self.model = None
None == [id |-> 0, names |-> <<>>, compiled |-> FALSE]

\* The base directory itself: f'{MODEL_BASE_DIRECTORY}/{hash}/' with hash ''.
MODEL_BASE_DIRECTORY == <<>>

\* f'{CNN.MODEL_BASE_DIRECTORY}/{self.hash}/{self.hash}'
checkpoint_filepath(h) == <<h, h>>

\* validation_split=.2, in percent
VALIDATION_SPLIT == 20

\* self.callbacks
callbacks == {"ModelCheckpoint", "TensorBoard"}

EngineCall(op, path, split_pct, cbs) ==
    [op |-> op, path |-> path, validation_split |-> split_pct, callbacks |-> cbs]

NoCall ==
    [op |-> "none", inst |-> "none", outcome |-> "returned", ret |-> None,
     tensor_reps |-> 0, engine |-> <<>>]

\* The layers a CNN is built from in this model.
CnnLayerChoices == {SkipLayer(32, 64), PoolingLayer(MaxName)}

\* ----------------------------------------------------------- CNN.generate

\* A buggy SkipLayer.tensor_rep that never advances the counter.
SkipLayer_tensor_rep_no_increment(layer, g) ==
    [group_name |-> g, GROUP_NUMBER |-> g]

\* SkipLayer.tensor_rep: names the block after the counter, then advances it.
SkipLayer_tensor_rep(layer, g) ==
    [group_name |-> g, GROUP_NUMBER |-> g + 1]

\* PoolingLayer.tensor_rep: no group name, counter untouched.
PoolingLayer_tensor_rep(layer, g) ==
    [group_name |-> 0, GROUP_NUMBER |-> g]

tensor_rep(layer, g) ==
    IF layer.type = "SkipLayer" THEN SkipLayer_tensor_rep(layer, g)
    ELSE PoolingLayer_tensor_rep(layer, g)

\* The loop of generate over the first n layers, the counter starting at g:
\* the group name each layer got (0: none) and the counter afterwards.
RECURSIVE render(_, _, _)
render(ls, n, g) ==
    IF n = 0 THEN [names |-> <<>>, group |-> g]
    ELSE LET prev == render(ls, n - 1, g)
             r == tensor_rep(ls[n], prev.group)
         IN [names |-> Append(prev.names, r.group_name), group |-> r.GROUP_NUMBER]

\* A buggy guard that rebuilds on every call.
generate_always_builds(m) == TRUE

\* `if self.model is None:` in generate
generate_builds(m) == m = None

\* generate() on instance i. When it builds, failAt says where the pass is
\* aborted by an exception: 0 nowhere; k in 1..n inside layer k's tensor_rep
\* (for a SkipLayer after the counter was advanced); n+1 in output_function;
\* n+2 in tf.keras.Model(...); n+3 in model.summary() / model.compile(...),
\* that is after self.model was assigned.
generate(i) ==
    LET ls == layers[i]
        n == Len(ls)
    IN
    /\ IF generate_builds(model[i])
       THEN \E failAt \in 0..(n + 3) :
              LET reached == IF failAt \in 1..n THEN failAt ELSE n
                  r == render(ls, reached, 1)
                  assigned == failAt = 0 \/ failAt = n + 3
                  built == [id |-> graphs_built + 1, names |-> r.names,
                            compiled |-> failAt = 0]
              IN
              /\ model' = [model EXCEPT ![i] = IF assigned THEN built ELSE @]
              /\ graphs_built' = IF failAt = 0 \/ failAt > n + 2
                                 THEN graphs_built + 1 ELSE graphs_built
              /\ GROUP_NUMBER' = IF failAt = 0 THEN 1 ELSE r.group
              /\ last_call' =
                   [op |-> "generate", inst |-> i,
                    outcome |-> IF failAt = 0 THEN "returned"
                                ELSE "ExternalEngineFailure",
                    ret |-> IF failAt = 0 THEN built ELSE None,
                    tensor_reps |-> reached,
                    engine |-> IF assigned
                               THEN <<EngineCall("compile", <<>>, 0, {})>>
                               ELSE <<>>]
       ELSE /\ last_call' =
                   [op |-> "generate", inst |-> i, outcome |-> "returned",
                    ret |-> model[i], tensor_reps |-> 0, engine |-> <<>>]
            /\ UNCHANGED <<model, graphs_built, GROUP_NUMBER>>
    /\ UNCHANGED <<layers, hash, load_if_exist, dirs>>
    /\ UNCHANGED codec_vars

\* ----------------------------------------------------------- CNN.evaluate

\* evaluate() on instance i: self.model.evaluate(...). On None the attribute
\* lookup raises; on a graph the engine call returns or raises.
evaluate(i) ==
    /\ IF model[i] = None
       THEN last_call' =
              [op |-> "evaluate", inst |-> i, outcome |-> "AttributeError",
               ret |-> None, tensor_reps |-> 0, engine |-> <<>>]
       ELSE \E out \in {"returned", "ExternalEngineFailure"} :
              /\ model[i].compiled \/ out = "ExternalEngineFailure"
              /\ last_call' =
                   [op |-> "evaluate", inst |-> i, outcome |-> out,
                    ret |-> None, tensor_reps |-> 0,
                    engine |-> <<EngineCall("evaluate", <<>>, 0, {})>>]
    /\ UNCHANGED <<layers, hash, load_if_exist, model, GROUP_NUMBER,
                   graphs_built, dirs>>
    /\ UNCHANGED codec_vars

\* -------------------------------------------------------------- CNN.train

\* os.path.exists(f'{CNN.MODEL_BASE_DIRECTORY}/{self.hash}/')
path_exists(h) == h \in dirs

\* A buggy condition that ignores load_if_exist.
train_restores_ignoring_flag(flag, exists) == exists

\* `if self.load_if_exist and os.path.exists(...)` in train
train_restores(flag, exists) == flag /\ exists

\* train() on instance i.
train(i) ==
    /\ IF train_restores(load_if_exist[i], path_exists(hash[i]))
       THEN IF model[i] = None
            THEN /\ last_call' =
                      [op |-> "train", inst |-> i, outcome |-> "AttributeError",
                       ret |-> None, tensor_reps |-> 0, engine |-> <<>>]
                 /\ dirs' = dirs
            ELSE \E out \in {"returned", "ExternalEngineFailure"} :
                   /\ last_call' =
                        [op |-> "train", inst |-> i, outcome |-> out,
                         ret |-> None, tensor_reps |-> 0,
                         engine |-> <<EngineCall("load_weights",
                                                 checkpoint_filepath(hash[i]),
                                                 0, {})>>]
                   /\ dirs' = dirs
       ELSE IF model[i] # None
            THEN \E out \in {"returned", "ExternalEngineFailure"},
                    saved \in BOOLEAN :
                   /\ model[i].compiled \/ (out = "ExternalEngineFailure" /\ ~saved)
                   /\ last_call' =
                        [op |-> "train", inst |-> i, outcome |-> out,
                         ret |-> None, tensor_reps |-> 0,
                         engine |-> <<EngineCall("fit", <<>>, VALIDATION_SPLIT,
                                                 callbacks)>>]
                   \* ModelCheckpoint creates the directories of its filepath
                   /\ dirs' = IF saved
                              THEN dirs \cup {MODEL_BASE_DIRECTORY, hash[i]}
                              ELSE dirs
            ELSE /\ last_call' =
                      [op |-> "train", inst |-> i, outcome |-> "returned",
                       ret |-> None, tensor_reps |-> 0, engine |-> <<>>]
                 /\ dirs' = dirs
    /\ UNCHANGED <<layers, hash, load_if_exist, model, GROUP_NUMBER, graphs_built>>
    /\ UNCHANGED codec_vars

\* --------------------------------------------------------- specification

Topologies == SeqsUpTo(CnnLayerChoices, MaxLayers)

\* The decoder is not running.
CodecIdle ==
    /\ source = "idle"
    /\ topology = <<>>
    /\ layer_definition = <<>>
    /\ tokens = <<>>
    /\ l = <<>>
    /\ pc = "idle"

\* CNN.__init__ for every instance, in a process whose counter is fresh.
Init ==
    /\ layers \in [Instances -> Topologies]
    /\ hash = [i \in Instances |-> generate_hash(layers[i])]
    /\ load_if_exist \in [Instances -> BOOLEAN]
    /\ model = [i \in Instances |-> None]
    /\ GROUP_NUMBER = 1
    /\ graphs_built = 0
    /\ dirs \in {D \in SUBSET ({MODEL_BASE_DIRECTORY} \cup {hash[i] : i \in Instances}) :
                   D # {} => MODEL_BASE_DIRECTORY \in D}
    /\ last_call = NoCall
    /\ CodecIdle

Next ==
    \/ \E i \in Instances : generate(i)
    \/ \E i \in Instances : evaluate(i)
    \/ \E i \in Instances : train(i)

Spec == Init /\ [][Next]_vars

\* -------------------------------------------------- get_layer_from_string

FooName == <<"f", "o", "o">>

\* The tokens raw topology strings are joined from: empty, all-digit (with
\* and without leading zero), pooling names, an unknown name, and literals
\* int() accepts although isdigit() rejects them.
RawTokens ==
    { <<>>, <<"0">>, <<"7">>, <<"3", "2">>, <<"0", "6", "4">>,
      MaxName, MeanName, FooName, <<"+", "5">>, <<"1", "_", "0">> }

\* The layers of the topologies that are encoded and decoded again.
CodecLayerChoices ==
    {SkipLayer(a, b) : a, b \in {7, 32, 100}}
        \cup {PoolingLayer(MaxName), PoolingLayer(MeanName)}

Raised(err) == [ok |-> FALSE, error |-> err, layer |-> PoolingLayer(<<>>)]

Built(layer) == [ok |-> TRUE, error |-> "none", layer |-> layer]

\* A buggy constructor call that reuses the first width when the second
\* token is missing or is no integer.
skip_from_tokens_lenient(toks) ==
    IF Len(toks) < 2 \/ ~int_ok(toks[2])
    THEN Built(SkipLayer(int(toks[1]), int(toks[1])))
    ELSE Built(SkipLayer(int(toks[1]), int(toks[2])))

\* SkipLayer(int(layers[0]), int(layers[0 + 1])): layers[1] raises IndexError
\* when there is no second token, int() raises ValueError on a non-integer.
skip_from_tokens(toks) ==
    IF Len(toks) < 2 THEN Raised("IndexError")
    ELSE IF ~int_ok(toks[2]) THEN Raised("ValueError")
    ELSE Built(SkipLayer(int(toks[1]), int(toks[2])))

\* A buggy branch that removes only the first token of a skip block.
pop_skip_once(toks) == SubSeq(toks, 2, Len(toks))

\* layers.pop(0); layers.pop(0)
pop_skip(toks) == SubSeq(toks, 3, Len(toks))

\* layers = layer_definition.split('-'); l = []
decode_split ==
    /\ pc = "call"
    /\ tokens' = split(layer_definition, "-")
    /\ l' = <<>>
    /\ pc' = "loop"
    /\ UNCHANGED <<source, topology, layer_definition>>
    /\ UNCHANGED cnn_vars

\* One iteration of the while loop, branch layers[0].isdigit()
decode_skip ==
    /\ pc = "loop"
    /\ Len(tokens) > 0
    /\ isdigit(tokens[1])
    /\ LET r == skip_from_tokens(tokens) IN
         IF r.ok
         THEN /\ tokens' = pop_skip(tokens)
              /\ l' = Append(l, r.layer)
              /\ pc' = "loop"
         ELSE /\ pc' = r.error
              /\ UNCHANGED <<tokens, l>>
    /\ UNCHANGED <<source, topology, layer_definition>>
    /\ UNCHANGED cnn_vars

\* One iteration of the while loop, the else branch
decode_pool ==
    /\ pc = "loop"
    /\ Len(tokens) > 0
    /\ ~isdigit(tokens[1])
    /\ tokens' = Tail(tokens)
    /\ l' = Append(l, PoolingLayer(tokens[1]))
    /\ UNCHANGED <<source, topology, layer_definition, pc>>
    /\ UNCHANGED cnn_vars

\* The loop condition fails: return l
decode_return ==
    /\ pc = "loop"
    /\ Len(tokens) = 0
    /\ pc' = "returned"
    /\ UNCHANGED <<source, topology, layer_definition, tokens, l>>
    /\ UNCHANGED cnn_vars

\* No CNN object takes part in a decoder run.
CnnIdle ==
    /\ layers = [i \in Instances |-> <<>>]
    /\ hash = [i \in Instances |-> <<>>]
    /\ load_if_exist = [i \in Instances |-> TRUE]
    /\ model = [i \in Instances |-> None]
    /\ GROUP_NUMBER = 1
    /\ graphs_built = 0
    /\ dirs = {}
    /\ last_call = NoCall

\* A call of get_layer_from_string, on the encoding of a topology or on a
\* raw string.
InitCodec ==
    /\ CnnIdle
    /\ \/ /\ source = "encode"
          /\ topology \in SeqsUpTo(CodecLayerChoices, MaxLayers)
          /\ layer_definition = generate_hash(topology)
       \/ /\ source = "raw"
          /\ topology = <<>>
          /\ \E parts \in SeqsUpTo(RawTokens, MaxTokens) \ {<<>>} :
                layer_definition = join(Dash, parts)
    /\ tokens = <<>>
    /\ l = <<>>
    /\ pc = "call"

NextCodec ==
    \/ decode_split
    \/ decode_skip
    \/ decode_pool
    \/ decode_return

SpecCodec == InitCodec /\ [][NextCodec]_vars

\* ------------------------------------------------------------- properties

IsSkip(layer) == layer.type = "SkipLayer"

\* The number of SkipLayers among the first n layers of ls.
SkipsUpTo(ls, n) == Cardinality({k \in 1..n : IsSkip(ls[k])})

\* a and b hold the same layers the same number of times.
SameLayers(a, b) ==
    /\ Len(a) = Len(b)
    /\ \A x \in {a[k] : k \in 1..Len(a)} \cup {b[k] : k \in 1..Len(b)} :
          Cardinality({k \in 1..Len(a) : a[k] = x})
              = Cardinality({k \in 1..Len(b) : b[k] = x})

ErrorOutcomes == {"IndexError", "ValueError"}

\* The tokens of the decoder's argument.
ArgTokens == split(layer_definition, "-")

\* A token list made of blocks only: two all-digit tokens, or one pooling
\* name.
RECURSIVE IsBlockList(_)
IsBlockList(toks) ==
    \/ toks = <<>>
    \/ /\ Head(toks) \in pooling_choices
       /\ IsBlockList(Tail(toks))
    \/ /\ Len(toks) >= 2
       /\ isdigit(toks[1])
       /\ isdigit(toks[2])
       /\ IsBlockList(Tail(Tail(toks)))

\* The layers a list of blocks stands for, block by block.
RECURSIVE BlockLayers(_)
BlockLayers(toks) ==
    IF toks = <<>> THEN <<>>
    ELSE IF Head(toks) \in pooling_choices
    THEN <<PoolingLayer(Head(toks))>> \o BlockLayers(Tail(toks))
    ELSE <<SkipLayer(DecimalValue(toks[1]), DecimalValue(toks[2]))>>
             \o BlockLayers(Tail(Tail(toks)))

\* C1: a generate() call on an instance whose graph is already built returns
\* that very graph object and rebuilds nothing: no tensor_rep is invoked, no
\* engine call (compile) is made, no graph object is created, the instance's
\* graph stays the same object and SkipLayer.GROUP_NUMBER is left as it was.
C1_GenerateIsCached ==
    [][\A i \in Instances :
          (model[i] # None /\ last_call'.op = "generate" /\ last_call'.inst = i)
              => /\ last_call'.outcome = "returned"
                 /\ last_call'.ret = model[i]
                 /\ last_call'.tensor_reps = 0
                 /\ last_call'.engine = <<>>
                 /\ model'[i] = model[i]
                 /\ graphs_built' = graphs_built
                 /\ GROUP_NUMBER' = GROUP_NUMBER]_vars

\* C1 witness: a generate() call has just returned the cached graph of an
\* instance with layers, after the other instance left the counter dirty.
C1_Witness ==
    /\ last_call.op = "generate"
    /\ last_call.engine = <<>>
    /\ last_call.tensor_reps = 0
    /\ last_call.ret # None
    /\ last_call.ret = model[last_call.inst]
    /\ Len(layers[last_call.inst]) > 0
    /\ GROUP_NUMBER > 1

\* C2 (as claimed): whenever control is back with the caller, that is in
\* every state between calls, SkipLayer.GROUP_NUMBER is 1.
C2_CounterAlwaysInitial == GROUP_NUMBER = 1

\* C3 (as claimed): decoding the encoding of any topology, the empty one
\* included, raises nothing and returns the topology again, layer by layer.
C3_RoundTrip ==
    source = "encode" =>
        /\ pc \notin ErrorOutcomes
        /\ pc = "returned" => l = topology

\* C4 (as claimed): a string with a non-numeric token that is no pooling
\* name (such as "foo") is never decoded into a returned layer list, and a
\* returned list holds no PoolingLayer of an unrecognized kind.
C4_UnknownNameRejected ==
    pc = "returned" =>
        /\ ~\E k \in 1..Len(ArgTokens) :
               /\ Len(ArgTokens[k]) > 0
               /\ ~isdigit(ArgTokens[k])
               /\ ArgTokens[k] \notin pooling_choices
        /\ \A k \in 1..Len(l) :
               (l[k].type = "PoolingLayer" /\ Len(l[k].pooling_type) > 0)
                   => l[k].pooling_type \in pooling_choices

\* C5: when the decoder stands at a block boundary on an all-digit token that
\* is the last token or is followed by a token int() does not accept, the
\* call raises; and a call that raised returns nothing: it takes no further
\* step.
C5_DanglingSkipRaises ==
    [][/\ pc \notin ErrorOutcomes
       /\ (/\ pc = "loop"
           /\ Len(tokens) > 0
           /\ isdigit(tokens[1])
           /\ (Len(tokens) = 1 \/ ~int_ok(tokens[2])))
             => pc' \in ErrorOutcomes]_vars

\* C5 witness: the call raised on a dangling skip start after it had
\* already decoded a layer.
C5_Witness ==
    /\ pc \in ErrorOutcomes
    /\ Len(l) > 0
    /\ isdigit(tokens[1])
    /\ (Len(tokens) = 1 \/ ~int_ok(tokens[2]))

\* C6 (as claimed): train() and evaluate() on an instance whose model is
\* None never return normally and invoke no engine operation.
C6_UninitializedReported ==
    (last_call.op \in {"train", "evaluate"} /\ model[last_call.inst] = None)
        => /\ last_call.outcome # "returned"
           /\ last_call.engine = <<>>

\* C7: train() on an instance with a graph makes exactly one engine call:
\* load_weights on the checkpoint path when load_if_exist is set and the
\* checkpoint subdirectory of the hash exists, and otherwise fit with the
\* 0.2 validation split and the checkpoint and logging callbacks.
C7_TrainTakesOnePath ==
    [][\A i \in Instances :
          (model[i] # None /\ last_call'.op = "train" /\ last_call'.inst = i)
              => IF load_if_exist[i] /\ hash[i] \in dirs
                 THEN last_call'.engine =
                        <<EngineCall("load_weights", <<hash[i], hash[i]>>, 0, {})>>
                 ELSE last_call'.engine =
                        <<EngineCall("fit", <<>>, 20,
                                     {"ModelCheckpoint", "TensorBoard"})>>]_vars

\* C7 witness: a train() call restored the weights of a compiled instance
\* from its checkpoint and returned.
C7_Witness ==
    /\ last_call.op = "train"
    /\ last_call.outcome = "returned"
    /\ Len(last_call.engine) = 1
    /\ last_call.engine[1].op = "load_weights"
    /\ model[last_call.inst].compiled

C9_ValidStringDecoded ==
    /\ [](IsBlockList(ArgTokens) =>
            /\ pc \notin ErrorOutcomes
            /\ pc = "loop" => /\ IsBlockList(tokens)
                              /\ BlockLayers(ArgTokens) = l \o BlockLayers(tokens)
            /\ pc = "returned" => l = BlockLayers(ArgTokens))
    /\ [](pc \in {"call", "loop"} => ENABLED NextCodec)
    /\ [][pc = "loop" => (pc' # "loop" \/ Len(tokens') < Len(tokens))]_vars

\* C9 witness: the decoder returned a skip block followed by a pooling block
\* for a raw string of blocks.
C9_Witness ==
    /\ source = "raw"
    /\ IsBlockList(ArgTokens)
    /\ pc = "returned"
    /\ Len(l) = 2
    /\ l[1].type = "SkipLayer"
    /\ l[2].type = "PoolingLayer"

\* C10: in every graph that was built, the k-th SkipLayer of the topology
\* carries group number k and pooling layers carry none, so the group names
\* of one graph are pairwise distinct, whatever was compiled before.
C10_GroupNamesSequential ==
    \A i \in Instances :
        model[i] # None =>
            /\ Len(model[i].names) = Len(layers[i])
            /\ \A k \in 1..Len(layers[i]) :
                  model[i].names[k] =
                      IF IsSkip(layers[i][k]) THEN SkipsUpTo(layers[i], k) ELSE 0
            /\ \A a, b \in 1..Len(layers[i]) :
                  (a # b /\ IsSkip(layers[i][a]) /\ IsSkip(layers[i][b]))
                      => model[i].names[a] # model[i].names[b]

\* C10 witness: the second graph of the process was built from a topology
\* with two SkipLayers, after the first one.
C10_Witness ==
    \E i, j \in Instances :
        /\ i # j
        /\ model[i].id = 1
        /\ model[j].id = 2
        /\ model[j].compiled
        /\ SkipsUpTo(layers[j], Len(layers[j])) = 2

====
